---- MODULE Spec2Model ----
(***************************************************************************)
(* Booking and payment transaction engine of the rembo auth service:      *)
(* seat booking (BookingService, booking endpoints), trip cancellation    *)
(* (TripService.cancel_trip) and the M-Pesa payment lifecycle             *)
(* (MpesaService, PaymentService, payments endpoints).                     *)
(*                                                                         *)
(* Request handlers run concurrently (thread pool for the synchronous      *)
(* booking endpoints, tasks/processes for the payment endpoints), each on  *)
(* its own SQLAlchemy session against a READ COMMITTED database: a handler *)
(* is split at the statements where it reads committed rows, and its       *)
(* commit writes the columns it changed as absolute values.                *)
(* Status strings are kept exactly as the code writes and compares them    *)
(* ("PENDING", "CONFIRMED", "cancelled", ...).  Money is counted in cents. *)
(*                                                                         *)
(* SpecBooking runs the booking handlers statement by statement on two     *)
(* workers.  Spec follows payments: the booking handlers run in one piece, *)
(* the payment handlers are split where they await the gateway, and the    *)
(* callback, which has no await, runs in one piece.  SpecSerial serves the *)
(* booking requests one at a time, and SpecRefund follows paid bookings    *)
(* into the refund workflow (PaymentService.initiate_refund).  SpecDriver  *)
(* runs driver registrations, which draw per-fleet driver ids              *)
(* (DriverIDService.generate_driver_id), statement by statement.           *)
(***************************************************************************)
EXTENDS Integers, Sequences, FiniteSets, TLC

\* ------------------------------------------------------------------ bounds
Capacity == 2            \* vehicle.capacity of the one scheduled trip
MaxBookings == 2         \* bookings ever created by concurrent requests
MaxPayableBookings == 1  \* bookings ever created while payments are followed
MaxPayments == 2         \* payment transactions ever committed
MaxWebhookLogs == 2      \* webhook log rows ever committed
MaxTime == 2             \* minutes the clock runs
MaxRefunds == 2          \* refund transactions ever committed
MaxDrivers == 3          \* driver registrations ever taken up

Workers == {"w1", "w2"}  \* concurrent request handlers
TripIds == {"trip1"}     \* trips created by TripService.create_trip
NoTrip == "none"         \* a trip id that matches no row
SeatLabels == {"0", "1", "2"}  \* seat_numbers entries a client may send

FareCents == 50000       \* trip.fare of the scheduled trip (500.00)

\* ------------------------------------------------------- program constants
ExpiryMinutes == 2       \* expires_at = utcnow() + timedelta(minutes=2)
TimeoutCheckMinutes == 2 \* schedule_payment_timeout_check(payment_id, 120)
AmountToleranceCents == 1 \* abs(float(amount) - float(amount_due)) > 0.01
ApprovalThresholdCents == 100000 \* refund_amount > Decimal('1000.00')
DriverNumberCap == 999   \* min(next_number, 999)

VARIABLES
    db_checks,     \* whether the deployed schema carries the models' CHECK constraints
    trips,         \* trips table: trip id -> row
    bookings,      \* bookings table: sequence of rows, id = index
    payments,      \* payment_transactions table: committed rows, id = index
    webhook_logs,  \* payment_webhook_logs table: committed rows
    timers,        \* payments whose timeout-check background task is scheduled
    now,           \* utcnow(), in minutes
    req,           \* per worker: the request it is handling and its locals
    res,           \* per worker: outcome of the last request it finished
    timed_out,     \* payments whose timeout check ran while they were processing (history)
    refunds,       \* refund_transactions table: committed rows, id = index
    drivers,       \* drivers table: fleet id -> driver ids stored for the fleet
    driver_req     \* per worker: the driver registration it is handling

vars == <<db_checks, trips, bookings, payments, webhook_logs, timers, now,
          req, res, timed_out, refunds, drivers, driver_req>>

driver_vars == <<drivers, driver_req>>

payment_vars ==
    <<payments, webhook_logs, timers, now, timed_out, refunds, driver_vars>>

\* ----------------------------------------------------------------- helpers
Range(s) == {s[i] : i \in 1..Len(s)}

Abs(x) == IF x < 0 THEN -x ELSE x

\* str(seat_num) for the seat numbers of a vehicle
SeatStr(i) ==
    CASE i = 1 -> "1" [] i = 2 -> "2" [] i = 3 -> "3" [] i = 4 -> "4"
      [] i = 5 -> "5" [] OTHER -> "n"

\* seat_numbers lists a client sends (seats_booked is their length, as the
\* request validator demands): single seats, a pair, a repeated seat, and a
\* seat the vehicle does not have
SeatRequests == {<<"1">>, <<"2">>, <<"1", "2">>, <<"1", "1">>, <<"0">>}

\* CHECK constraints of the trips table
TripRowValid(t) ==
    /\ t.available_seats <= t.total_seats /\ t.available_seats >= 0
    /\ t.booked_seats >= 0 /\ t.booked_seats <= t.total_seats
    /\ t.available_seats + t.booked_seats = t.total_seats

\* Booking.booking_status.in_(["CONFIRMED", "PENDING"])
SeatHoldingStatuses == {"CONFIRMED", "PENDING"}

ActiveBookingIds(t) ==
    {i \in 1..Len(bookings) :
        /\ bookings[i].trip_id = t
        /\ bookings[i].booking_status \in SeatHoldingStatuses}

booked_seats_set(t) ==
    UNION {Range(bookings[i].seat_numbers) : i \in ActiveBookingIds(t)}

\* seat_map of get_seat_availability: "booked"/"reserved" for a seat held by
\* an active booking (the last such booking decides), "available" for a free
\* seat 1..total_seats, "none" for a key the map does not have
get_seat_availability(t) ==
    [s \in SeatLabels |->
        IF s \in booked_seats_set(t)
        THEN LET holders == {i \in ActiveBookingIds(t) :
                                s \in Range(bookings[i].seat_numbers)}
                 latest == CHOOSE i \in holders : \A j \in holders : j <= i
             IN IF bookings[latest].booking_status = "confirmed"
                THEN "booked" ELSE "reserved"
        ELSE IF s \in {SeatStr(n) : n \in 1..trips[t].total_seats}
             THEN "available" ELSE "none"]

\* for seat_number in request.seat_numbers: seat_map.get(seat_number) != "available"
seats_unavailable(t, seats) ==
    \E i \in 1..Len(seats) : get_seat_availability(t)[seats[i]] # "available"

Idle ==
    [pc |-> "idle", op |-> "none", trip_id |-> NoTrip, seat_numbers |-> <<>>,
     booking_id |-> 0, seats_booked |-> 0,
     available_seats |-> 0, booked_seats |-> 0,
     payment_id |-> 0, amount |-> 0,
     overlap |-> {}, alone_ok |-> FALSE]

NoResult ==
    [op |-> "none", outcome |-> "none", trip_id |-> NoTrip, seat_numbers |-> <<>>,
     booking_id |-> 0, overlap |-> {}, alone_ok |-> FALSE]

InFlight == {w \in Workers : req[w].pc # "idle"}

InFlightOp(op) == {w \in Workers : req[w].op = op}

\* a worker takes up a request: it and every handler in flight overlap
Begin(w, r) ==
    [v \in Workers |->
        IF v = w THEN [r EXCEPT !.overlap = InFlight \ {w}]
        ELSE IF v \in InFlight
             THEN [req[v] EXCEPT !.overlap = @ \cup {w}]
             ELSE req[v]]

Result(r, outcome, bid) ==
    [op |-> r.op, outcome |-> outcome, trip_id |-> r.trip_id,
     seat_numbers |-> r.seat_numbers, booking_id |-> bid,
     overlap |-> r.overlap, alone_ok |-> r.alone_ok]

\* the handler returns: the worker is idle again and its outcome is kept
\* until a handler takes up the next request
Finish(w, r, outcome, bid) ==
    /\ req' = [req EXCEPT ![w] = Idle]
    /\ res' = [res EXCEPT ![w] = Result(r, outcome, bid)]

\* a request that is answered in the step that takes it up
Answer(w, started, outcome, bid) ==
    /\ req' = [started EXCEPT ![w] = Idle]
    /\ res' = [v \in Workers |->
                  IF v = w THEN Result(started[w], outcome, bid) ELSE NoResult]

\* a request whose handler goes on to its next statement
Continue(started) ==
    /\ req' = started
    /\ res' = [v \in Workers |-> NoResult]

\* trip.available_seats -= request.seats_booked on the loaded row
create_booking_trip_update(row, r) ==
    [row EXCEPT !.available_seats = r.available_seats - r.seats_booked]

\* a cancellation that takes the seats off booked_seats and does not hand
\* them back to available_seats
cancel_booking_keeps_seats(row, r) ==
    [row EXCEPT !.booked_seats = r.booked_seats - r.seats_booked]

\* trip.available_seats += seats_booked; trip.booked_seats -= seats_booked
cancel_booking_trip_update(row, r) ==
    [row EXCEPT !.available_seats = r.available_seats + r.seats_booked,
                !.booked_seats = r.booked_seats - r.seats_booked]

\* trip.status = CANCELLED; trip.available_seats = 0
cancel_trip_update(row) ==
    [row EXCEPT !.status = "cancelled", !.available_seats = 0]

\* the commit of a changed trip row passes the schema's CHECK constraints
TripCommitOk(row) == db_checks => TripRowValid(row)

\* Booking(...) of create_booking with the column defaults of the model
NewBooking(r) ==
    [trip_id |-> r.trip_id, seats_booked |-> r.seats_booked,
     seat_numbers |-> r.seat_numbers,
     total_fare |-> FareCents * r.seats_booked,
     booking_status |-> "PENDING", payment_status |-> "PENDING",
     amount_paid |-> 0, amount_due |-> FareCents * r.seats_booked]

\* the outcome of create_booking when nothing runs between its statements
create_booking_outcome(t, seats, passenger_ok) ==
    IF t \notin TripIds THEN "Trip not found"
    ELSE IF trips[t].available_seats < Len(seats)
    THEN "Not enough seats available"
    ELSE IF seats_unavailable(t, seats) THEN "Seat is not available"
    ELSE IF ~passenger_ok THEN "Failed to create/get passenger"
    ELSE IF ~TripCommitOk(create_booking_trip_update(trips[t],
                 [available_seats |-> trips[t].available_seats,
                  seats_booked |-> Len(seats)]))
    THEN "Failed to create booking"
    ELSE "ok"

\* fleets and their fleet_code
FleetIds == {"fleet1", "fleet2"}
NoFleet == "none"
FleetCode == [f \in FleetIds |-> IF f = "fleet1" THEN "NAI" ELSE "MSA"]

NoDriverRequest ==
    [pc |-> "idle", fleet_id |-> NoFleet, next_number |-> 0,
     driver_id |-> <<>>]

\* -------------------------------------------------------------------- Init
Init ==
    /\ db_checks \in BOOLEAN
    /\ trips = [t \in TripIds |->
                   [total_seats |-> Capacity, available_seats |-> Capacity,
                    booked_seats |-> 0, status |-> "scheduled"]]
    /\ bookings = <<>>
    /\ payments = <<>>
    /\ webhook_logs = <<>>
    /\ timers = {}
    /\ now = 0
    /\ req = [w \in Workers |-> Idle]
    /\ res = [w \in Workers |-> NoResult]
    /\ timed_out = {}
    /\ refunds = <<>>
    /\ drivers = [f \in FleetIds |-> {}]
    /\ driver_req = [w \in Workers |-> NoDriverRequest]

\* ------------------------------------- create_booking, statement by statement
\* BookingService.create_booking, lines 229-235: load the trip, check capacity
CreateBookingCheckTrip(w, t, seats) ==
    /\ req[w].pc = "idle"
    /\ Len(bookings) + Cardinality(InFlightOp("create_booking")) < MaxBookings
    /\ LET r == [Idle EXCEPT !.op = "create_booking", !.pc = "cb_seats",
                             !.trip_id = t, !.seat_numbers = seats,
                             !.seats_booked = Len(seats),
                             !.alone_ok =
                                 create_booking_outcome(t, seats, TRUE) = "ok"]
           started == Begin(w, r)
       IN IF t \notin TripIds
          THEN Answer(w, started, "Trip not found", 0)
          ELSE IF trips[t].available_seats < r.seats_booked
          THEN Answer(w, started, "Not enough seats available", 0)
          ELSE Continue(started)
    /\ UNCHANGED <<db_checks, trips, bookings, payment_vars>>

\* lines 237-245: seat map from the active bookings, every requested seat free
CreateBookingCheckSeats(w) ==
    /\ req[w].pc = "cb_seats"
    /\ LET r == req[w]
       IN IF seats_unavailable(r.trip_id, r.seat_numbers)
          THEN Finish(w, r, "Seat is not available", 0)
          ELSE /\ req' = [req EXCEPT ![w].pc = "cb_passenger"]
               /\ UNCHANGED res
    /\ UNCHANGED <<db_checks, trips, bookings, payment_vars>>

\* lines 247-256: create_or_get_passenger commits, which expires the session's
\* objects; trip.fare reloads the trip row
CreateBookingPassenger(w, passenger_ok) ==
    /\ req[w].pc = "cb_passenger"
    /\ LET r == req[w]
       IN IF ~passenger_ok
          THEN Finish(w, r, "Failed to create/get passenger", 0)
          ELSE /\ req' = [req EXCEPT ![w].pc = "cb_commit",
                             ![w].available_seats =
                                 trips[r.trip_id].available_seats]
               /\ UNCHANGED res
    /\ UNCHANGED <<db_checks, trips, bookings, payment_vars>>

\* lines 258-297: insert the booking, write the trip's seat count, commit
CreateBookingCommit(w) ==
    /\ req[w].pc = "cb_commit"
    /\ LET r == req[w]
           row == create_booking_trip_update(trips[r.trip_id], r)
       IN IF ~TripCommitOk(row)
          THEN /\ Finish(w, r, "Failed to create booking", 0)
               /\ UNCHANGED <<trips, bookings>>
          ELSE /\ bookings' = Append(bookings, NewBooking(r))
               /\ trips' = [trips EXCEPT ![r.trip_id] = row]
               /\ Finish(w, r, "ok", Len(bookings) + 1)
    /\ UNCHANGED <<db_checks, payment_vars>>

\* ------------------------------------- cancel_booking, statement by statement
\* booking endpoint cancel_booking, lines 255-270: load the booking, check it
CancelBookingLoad(w, b) ==
    /\ req[w].pc = "idle"
    /\ b \in 1..(Len(bookings) + 1)
    /\ LET r == [Idle EXCEPT !.op = "cancel_booking", !.pc = "xb_trip",
                             !.booking_id = b]
           started == Begin(w, r)
       IN IF b > Len(bookings)
          THEN Answer(w, started, "Booking not found", 0)
          ELSE IF bookings[b].booking_status \in {"cancelled", "completed"}
          THEN Answer(w, started,
                      "Booking is already cancelled or completed", 0)
          ELSE Continue([started EXCEPT
                             ![w].trip_id = bookings[b].trip_id,
                             ![w].seats_booked = bookings[b].seats_booked])
    /\ UNCHANGED <<db_checks, trips, bookings, payment_vars>>

\* lines 272-273: load the booking's trip
CancelBookingLoadTrip(w) ==
    /\ req[w].pc = "xb_trip"
    /\ LET r == req[w]
       IN req' = [req EXCEPT ![w].pc = "xb_commit",
                     ![w].available_seats = trips[r.trip_id].available_seats,
                     ![w].booked_seats = trips[r.trip_id].booked_seats]
    /\ UNCHANGED <<db_checks, trips, bookings, res, payment_vars>>

\* lines 270-280: booking_status = BookingStatus.CANCELLED, counters, commit
CancelBookingCommit(w) ==
    /\ req[w].pc = "xb_commit"
    /\ LET r == req[w]
           row == cancel_booking_trip_update(trips[r.trip_id], r)
       IN IF ~TripCommitOk(row)
          THEN /\ Finish(w, r, "Internal server error", 0)
               /\ UNCHANGED <<trips, bookings>>
          ELSE /\ bookings' = [bookings EXCEPT
                                  ![r.booking_id].booking_status = "cancelled"]
               /\ trips' = [trips EXCEPT ![r.trip_id] = row]
               /\ Finish(w, r, "ok", r.booking_id)
    /\ UNCHANGED <<db_checks, payment_vars>>

\* -------------------------------------------- booking handlers, run serially
\* BookingService.create_booking, the whole handler
create_booking(t, seats, passenger_ok) ==
    /\ LET outcome == create_booking_outcome(t, seats, passenger_ok)
           r == [Idle EXCEPT !.trip_id = t, !.seat_numbers = seats,
                             !.seats_booked = Len(seats),
                             !.available_seats =
                                 IF t \in TripIds
                                 THEN trips[t].available_seats ELSE 0]
       IN /\ IF outcome = "ok"
             THEN /\ bookings' = Append(bookings, NewBooking(r))
                  /\ trips' = [trips EXCEPT
                                  ![t] = create_booking_trip_update(trips[t], r)]
             ELSE UNCHANGED <<trips, bookings>>
    /\ UNCHANGED <<db_checks, payments, webhook_logs, timers, now, req, res,
                   timed_out,
                   refunds, driver_vars>>

\* a create_booking request while payments are followed
CreateBooking(t, seats, passenger_ok) ==
    /\ Len(bookings) < MaxPayableBookings
    /\ create_booking(t, seats, passenger_ok)

\* a create_booking request among booking requests served one at a time
CreateBookingSerial(t, seats, passenger_ok) ==
    /\ Len(bookings) < MaxBookings
    /\ create_booking(t, seats, passenger_ok)

\* the outcome of cancel_booking when nothing runs between its statements
cancel_booking_outcome(b) ==
    IF b > Len(bookings) THEN "Booking not found"
    ELSE IF bookings[b].booking_status \in {"cancelled", "completed"}
    THEN "Booking is already cancelled or completed"
    ELSE IF ~TripCommitOk(cancel_booking_trip_update(trips[bookings[b].trip_id],
                 [available_seats |-> trips[bookings[b].trip_id].available_seats,
                  booked_seats |-> trips[bookings[b].trip_id].booked_seats,
                  seats_booked |-> bookings[b].seats_booked]))
    THEN "Internal server error"
    ELSE "ok"

\* booking endpoint cancel_booking, the whole handler
CancelBooking(b) ==
    /\ b \in 1..(Len(bookings) + 1)
    /\ LET outcome == cancel_booking_outcome(b)
       IN /\ IF outcome = "ok"
             THEN LET t == bookings[b].trip_id
                      r == [available_seats |-> trips[t].available_seats,
                            booked_seats |-> trips[t].booked_seats,
                            seats_booked |-> bookings[b].seats_booked]
                  IN /\ bookings' = [bookings EXCEPT
                                        ![b].booking_status = "cancelled"]
                     /\ trips' = [trips EXCEPT
                                     ![t] = cancel_booking_trip_update(trips[t], r)]
             ELSE UNCHANGED <<trips, bookings>>
    /\ UNCHANGED <<db_checks, payments, webhook_logs, timers, now, req, res,
                   timed_out,
                   refunds, driver_vars>>

\* booking endpoint update_booking, lines 202-234: only a booking whose status
\* is "pending" or "confirmed" is modified
update_booking_outcome(b, departed) ==
    IF b > Len(bookings) THEN "Booking not found"
    ELSE IF bookings[b].booking_status \notin {"pending", "confirmed"}
    THEN "Booking cannot be modified in current status"
    ELSE IF departed THEN "Cannot modify booking after departure time"
    ELSE "ok"

UpdateBooking(b, seats, departed) ==
    /\ b \in 1..(Len(bookings) + 1)
    /\ LET outcome == update_booking_outcome(b, departed)
       IN /\ IF outcome = "ok"
             THEN bookings' = [bookings EXCEPT
                                  ![b].seat_numbers = seats,
                                  ![b].seats_booked = Len(seats)]
             ELSE UNCHANGED bookings
    /\ UNCHANGED <<db_checks, trips, payments, webhook_logs, timers, now,
                   req, res, timed_out,
                   refunds, driver_vars>>

\* TripService.cancel_trip, lines 602-645
cancel_trip_outcome(t) ==
    IF t \notin TripIds THEN "Trip not found"
    ELSE IF trips[t].status = "cancelled" THEN "Trip is already cancelled"
    ELSE IF trips[t].status = "completed" THEN "Cannot cancel completed trip"
    ELSE IF ~TripCommitOk(cancel_trip_update(trips[t]))
    THEN "Failed to cancel trip"
    ELSE "ok"

CancelTrip(t) ==
    /\ IF cancel_trip_outcome(t) = "ok"
       THEN trips' = [trips EXCEPT ![t] = cancel_trip_update(trips[t])]
       ELSE UNCHANGED trips
    /\ UNCHANGED <<db_checks, bookings, payments, webhook_logs, timers, now,
                   req, res, timed_out,
                   refunds, driver_vars>>

\* request.status values of update_trip_status once a trip is on its way
TripStatusUpdates == {"in_transit", "completed"}

\* TripStatusService.update_trip_status, lines 57-98: the trip row takes the
\* requested status; its seat counters are left as they are
UpdateTripStatus(t, status) ==
    /\ trips' = IF t \in TripIds
                THEN [trips EXCEPT ![t].status = status]
                ELSE trips
    /\ UNCHANGED <<db_checks, bookings, payments, webhook_logs, timers, now,
                   req, res, timed_out, refunds, driver_vars>>

\* ---------------------------------------------------------------- payments
Receipts == {"ABC123", "XYZ789"}   \* MpesaReceiptNumber values of callbacks

\* stkCallback bodies: a success (ResultCode 0) carries a receipt in its
\* CallbackMetadata items, which may lack a "Name" key; a failure carries none
CallbackPayloads(cids) ==
    {[cid |-> c, result_code |-> 0, receipt |-> r, metadata |-> m] :
        c \in cids, r \in Receipts, m \in {"ok", "malformed"}}
    \cup {[cid |-> c, result_code |-> 1032, receipt |-> "",
           metadata |-> "none"] : c \in cids}

\* stkCallback.ResultDesc of a result code
ResultDesc(code) ==
    IF code = 0 THEN "The service request is processed successfully."
    ELSE "Request cancelled by user"

TerminalStatuses == {"completed", "failed", "cancelled", "expired", "refunded"}

PaymentsOf(b) == {p \in 1..Len(payments) : payments[p].booking_id = b}

\* cents by which the amount a client sends exceeds the fare of one seat
AmountOffsets == {0, 2}

\* request.amount of an initiate request
ClientAmounts == {FareCents + d : d \in AmountOffsets}

\* the query without its expires_at filter
pending_payment_exists_any_age(b) ==
    \E p \in PaymentsOf(b) : payments[p].status \in {"pending", "processing"}

\* the pending-payment query of validate_payment_request, lines 86-92
pending_payment_exists(b) ==
    \E p \in PaymentsOf(b) :
        /\ payments[p].status \in {"pending", "processing"}
        /\ payments[p].expires_at > now

\* PaymentService.validate_payment_request, lines 49-104
validate_payment_request(b, amount, authorized) ==
    IF b \notin 1..Len(bookings) \/ ~authorized
    THEN "Booking not found or access denied"
    ELSE IF bookings[b].booking_status \in {"CANCELLED", "COMPLETED"}
    THEN "Cannot pay for cancelled or completed booking"
    ELSE IF Abs(amount - bookings[b].amount_due) > AmountToleranceCents
    THEN "Payment amount does not match booking amount"
    ELSE IF \E p \in PaymentsOf(b) : payments[p].status = "completed"
    THEN "Booking already paid"
    ELSE IF pending_payment_exists(b)
    THEN "Payment already in progress"
    ELSE "ok"

\* payments endpoint initiate_payment, lines 49-59: validate the request
InitiatePayment(w, b, amount, authorized) ==
    /\ req[w].pc = "idle"
    /\ Len(payments) + Cardinality(InFlightOp("initiate_payment")) < MaxPayments
    /\ b \in 1..(Len(bookings) + 1)
    /\ LET outcome == validate_payment_request(b, amount, authorized)
       IN req' = IF outcome = "ok"
                    THEN [req EXCEPT ![w] =
                             [Idle EXCEPT !.op = "initiate_payment",
                                          !.pc = "ip_gateway",
                                          !.booking_id = b,
                                          !.amount = amount]]
                    ELSE req
    /\ UNCHANGED <<db_checks, trips, bookings, payments, webhook_logs, timers,
                   now, res, timed_out,
                   refunds, driver_vars>>

\* PaymentTransaction(...) of initiate_stk_push, lines 149-158
NewPayment(r) ==
    [booking_id |-> r.booking_id, amount |-> r.amount, status |-> "pending",
     checkout_request_id |-> 0, mpesa_receipt_number |-> "",
     failure_reason |-> "", transaction_date |-> -1,
     expires_at |-> now + ExpiryMinutes]

\* MpesaService.initiate_stk_push, lines 109-211, and the scheduling of the
\* timeout check, initiate_payment lines 69-80.  The flushed row is visible to
\* other sessions only once the gateway has replied and the handler commits.
InitiateGatewayReply(w, reply) ==
    /\ req[w].pc = "ip_gateway"
    /\ LET r == req[w]
           pid == Len(payments) + 1
       IN /\ CASE reply = "accepted" ->
                    /\ payments' = Append(payments,
                           [NewPayment(r) EXCEPT !.status = "processing",
                                                 !.checkout_request_id = pid])
                    /\ timers' = timers \cup {pid}
               [] reply = "rejected" ->
                    /\ payments' = Append(payments,
                           [NewPayment(r) EXCEPT !.status = "failed",
                                                 !.failure_reason = "STK Push failed"])
                    /\ UNCHANGED timers
               [] OTHER -> UNCHANGED <<payments, timers>>
    /\ req' = [req EXCEPT ![w] = Idle]
    /\ UNCHANGED <<db_checks, trips, bookings, webhook_logs, now, res,
                   timed_out,
                   refunds, driver_vars>>

\* the payment a callback's CheckoutRequestID selects, 0 when there is none
payment_by_checkout(cid) ==
    IF cid # 0 /\ \E p \in 1..Len(payments) :
                      payments[p].checkout_request_id = cid
    THEN CHOOSE p \in 1..Len(payments) : payments[p].checkout_request_id = cid
    ELSE 0

\* the outcome of handle_stk_callback, lines 268-357
stk_callback_outcome(payload) ==
    IF payload.cid = 0 THEN "Invalid callback data"
    ELSE IF payment_by_checkout(payload.cid) = 0 THEN "Payment not found"
    ELSE IF payload.result_code = 0
    THEN IF payload.metadata = "malformed"
         THEN "Error handling STK callback" ELSE "completed"
    ELSE "failed"

\* an endpoint that answers with the outcome of the processing
mpesa_callback_reports_outcome(payload, task_added) ==
    IF stk_callback_outcome(payload) \in {"completed", "failed"}
    THEN [ResultCode |-> 0, ResultDesc |-> "Success"]
    ELSE [ResultCode |-> 1, ResultDesc |-> stk_callback_outcome(payload)]

\* payments endpoint mpesa_callback, lines 260-283: the response is built
\* right after the processing is handed to a background task, and the except
\* branch (the hand-over failed) answers the same
mpesa_callback(payload, task_added) ==
    IF task_added
    THEN [ResultCode |-> 0, ResultDesc |-> "Success"]
    ELSE [ResultCode |-> 0, ResultDesc |-> "Success"]

\* a callback whose failure branch records the reason and leaves the status
stk_callback_payment_keeps_status(row, payload) ==
    IF payload.result_code = 0
    THEN [row EXCEPT !.status = "completed",
                     !.mpesa_receipt_number = payload.receipt,
                     !.transaction_date = now]
    ELSE [row EXCEPT !.failure_reason = ResultDesc(payload.result_code)]

\* lines 305-309 and 332-334: the payment row after the callback
stk_callback_payment(row, payload) ==
    IF payload.result_code = 0
    THEN [row EXCEPT !.status = "completed",
                     !.mpesa_receipt_number = payload.receipt,
                     !.transaction_date = now]
    ELSE [row EXCEPT !.status = "failed",
                     !.failure_reason = ResultDesc(payload.result_code)]

\* the booking update without its amount_paid assignment
stk_callback_booking_status_only(row, payment) ==
    [row EXCEPT !.payment_status = "COMPLETED",
                !.booking_status = "CONFIRMED"]

\* lines 312-316: the booking row after a success callback
stk_callback_booking(row, payment) ==
    [row EXCEPT !.payment_status = "COMPLETED",
                !.amount_paid = payment.amount,
                !.booking_status = "CONFIRMED"]

\* the gateway gives a receipt number to one transaction only, so a callback
\* never carries the receipt of another payment (mpesa_receipt_number is
\* declared unique)
receipt_is_fresh(payload) ==
    \A q \in 1..Len(payments) :
        payments[q].mpesa_receipt_number = payload.receipt
            => payments[q].checkout_request_id = payload.cid

\* whether handle_stk_callback commits the webhook log it flushed at lines
\* 270-276: only the two branches that update the payment commit (321, 339);
\* the early returns (284-295) leave the transaction to be rolled back with
\* the session, and the except branch rolls the log back before it commits
\* (350-353)
webhook_log_committed(payload) ==
    stk_callback_outcome(payload) \in {"completed", "failed"}

\* MpesaService.handle_stk_callback, the whole background task: it has no
\* await, so it runs in one piece on the event loop.  The flushed webhook log
\* is committed only with the payment update (lines 321, 339).
HandleStkCallback(payload) ==
    /\ Len(webhook_logs) < MaxWebhookLogs
    /\ payload.result_code = 0 => receipt_is_fresh(payload)
    /\ LET outcome == stk_callback_outcome(payload)
           p == payment_by_checkout(payload.cid)
       IN /\ IF webhook_log_committed(payload)
             THEN /\ payments' = [payments EXCEPT
                         ![p] = stk_callback_payment(payments[p], payload)]
                  /\ bookings' =
                         IF outcome = "completed"
                         THEN [bookings EXCEPT ![payments[p].booking_id] =
                                  stk_callback_booking(@, payments[p])]
                         ELSE bookings
                  /\ webhook_logs' = Append(webhook_logs,
                         [checkout_request_id |-> payload.cid,
                          raw_payload |-> payload, processed |-> TRUE,
                          processing_error |-> ""])
             ELSE UNCHANGED <<payments, bookings, webhook_logs>>
    /\ UNCHANGED <<db_checks, trips, timers, now, req, res, timed_out,
                   refunds, driver_vars>>

\* PaymentService.query_payment_status, lines 483-513: what the handler does
\* with the payment it loads
query_payment_status_outcome(p, authorized) ==
    IF p > Len(payments) \/ ~authorized
    THEN "Payment not found or access denied"
    ELSE IF /\ payments[p].status \in {"pending", "processing"}
            /\ payments[p].checkout_request_id # 0
    THEN "querying"
    ELSE payments[p].status

\* load the payment; a pending or processing one is looked up at the gateway
QueryPaymentStatus(w, p, authorized) ==
    /\ req[w].pc = "idle"
    /\ p \in 1..(Len(payments) + 1)
    /\ req' = IF query_payment_status_outcome(p, authorized) = "querying"
              THEN [req EXCEPT ![w] =
                       [Idle EXCEPT !.op = "query_payment_status",
                                    !.pc = "qp_gateway",
                                    !.payment_id = p]]
              ELSE req
    /\ UNCHANGED <<db_checks, trips, bookings, payments, webhook_logs, timers,
                   now, res, timed_out,
                   refunds, driver_vars>>

\* lines 515-524: the payment row after the gateway's answer
query_status_payment(row, result_code) ==
    IF result_code = "0"
    THEN [row EXCEPT !.status = "completed", !.transaction_date = now]
    ELSE IF result_code \in {"1032", "1037"}
    THEN [row EXCEPT !.status = "cancelled"]
    ELSE row

QueryResultCodes == {"0", "1032", "1037", "1", "unreachable"}

\* lines 515-542: apply the gateway's answer and commit
QueryGatewayReply(w, result_code) ==
    /\ req[w].pc = "qp_gateway"
    /\ LET p == req[w].payment_id
       IN /\ payments' =
                 IF result_code = "unreachable" THEN payments
                 ELSE [payments EXCEPT
                          ![p] = query_status_payment(payments[p], result_code)]
    /\ req' = [req EXCEPT ![w] = Idle]
    /\ UNCHANGED <<db_checks, trips, bookings, webhook_logs, timers, now, res,
                   timed_out,
                   refunds, driver_vars>>

\* PaymentService.schedule_payment_timeout_check, lines 312-322: what the check
\* does to the payments table once its sleep is over
timeout_check_payments(p) == payments

\* asyncio.sleep(timeout_seconds) is over: the task was started when the
\* payment was created, ExpiryMinutes before its expires_at
timeout_check_due(p) ==
    payments[p].expires_at - ExpiryMinutes + TimeoutCheckMinutes <= now

\* the background task of a payment fires
TimeoutCheck(p) ==
    /\ p \in timers
    /\ timeout_check_due(p)
    /\ timers' = timers \ {p}
    /\ payments' = timeout_check_payments(p)
    /\ timed_out' = IF payments[p].status = "processing"
                    THEN timed_out \cup {p} ELSE timed_out
    /\ UNCHANGED <<db_checks, trips, bookings, webhook_logs, now, req, res,
                   refunds, driver_vars>>

\* time passes, one payment window at a time
Tick ==
    /\ now + ExpiryMinutes <= MaxTime
    /\ now' = now + ExpiryMinutes
    /\ UNCHANGED <<db_checks, trips, bookings, payments, webhook_logs, timers,
                   req, res, timed_out,
                   refunds, driver_vars>>

\* ----------------------------------------------------------------- refunds
\* request.refund_amount of a refund request (positive, as the request schema
\* demands): 50.00, one cent above the fare of one seat, the approval
\* threshold, and one and two cents above it
RefundAmounts ==
    {5000, FareCents + 1, ApprovalThresholdCents, ApprovalThresholdCents + 1,
     ApprovalThresholdCents + 2}

\* the checks of initiate_refund without the one on the payment's status
initiate_refund_outcome_any_status(p, amount, in_fleet) ==
    IF p \notin 1..Len(payments) THEN "Payment not found"
    ELSE IF ~in_fleet THEN "Payment not found in your fleet"
    ELSE IF amount > payments[p].amount
    THEN "Refund amount cannot exceed payment amount"
    ELSE "ok"

\* PaymentService.initiate_refund, lines 348-373: the checks before the refund
\* is created
initiate_refund_outcome(p, amount, in_fleet) ==
    IF p \notin 1..Len(payments) THEN "Payment not found"
    ELSE IF ~in_fleet THEN "Payment not found in your fleet"
    ELSE IF amount > payments[p].amount
    THEN "Refund amount cannot exceed payment amount"
    ELSE IF payments[p].status # "completed"
    THEN "Can only refund completed payments"
    ELSE "ok"

\* a refund row that never asks for approval
RefundWithoutApproval(p, amount) ==
    [original_payment_id |-> p, booking_id |-> payments[p].booking_id,
     refund_amount |-> amount, requires_approval |-> FALSE,
     approved_by |-> "NULL", status |-> "pending"]

\* RefundTransaction(...) of initiate_refund, lines 376-385, with the column
\* defaults of the model
NewRefund(p, amount) ==
    [original_payment_id |-> p, booking_id |-> payments[p].booking_id,
     refund_amount |-> amount,
     requires_approval |-> amount > ApprovalThresholdCents,
     approved_by |-> "NULL", status |-> "pending"]

\* PaymentService.initiate_refund, the whole handler (it has no await)
InitiateRefund(p, amount, in_fleet) ==
    /\ Len(refunds) < MaxRefunds
    /\ p \in 1..(Len(payments) + 1)
    /\ refunds' = IF initiate_refund_outcome(p, amount, in_fleet) = "ok"
                  THEN Append(refunds, NewRefund(p, amount))
                  ELSE refunds
    /\ UNCHANGED <<db_checks, trips, bookings, payments, webhook_logs, timers,
                   now, req, res, timed_out, driver_vars>>

\* ----------------------------------------------------------------- drivers
Max(S) == CHOOSE x \in S : \A y \in S : y <= x

\* f"DRV-{next_number:03d}{fleet_code}": prefix, number, fleet code
DriverId(n, code) == <<"DRV", n, code>>

\* DriverIDService._get_next_driver_number, lines 145-161:
\* COALESCE(MAX(number of the fleet's stored driver ids), 0) + 1, capped
_get_next_driver_number(f) ==
    LET stored == {d[2] : d \in drivers[f]}
        next_number == IF stored = {} THEN 1 ELSE Max(stored) + 1
    IN IF next_number < DriverNumberCap THEN next_number ELSE DriverNumberCap

\* DriverIDService.generate_driver_id, lines 38-55: load the fleet, read the
\* next number
GenerateDriverIdNumber(w, f) ==
    /\ driver_req[w].pc = "idle"
    /\ Cardinality({v \in Workers : driver_req[v].pc # "idle"})
           + Cardinality(UNION {drivers[g] : g \in FleetIds}) < MaxDrivers
    /\ driver_req' =
           IF f \notin FleetIds
           THEN driver_req
           ELSE [driver_req EXCEPT ![w] =
                    [pc |-> "gd_check", fleet_id |-> f,
                     next_number |-> _get_next_driver_number(f),
                     driver_id |-> <<>>]]
    /\ UNCHANGED <<db_checks, trips, bookings, payments, webhook_logs, timers,
                   now, req, res, timed_out, refunds, drivers>>

\* lines 56-75: the capacity check, the id, and the query for a stored driver
\* with that id; on success the id is returned to register_driver
GenerateDriverIdCheck(w) ==
    /\ driver_req[w].pc = "gd_check"
    /\ LET r == driver_req[w]
           driver_id == DriverId(r.next_number, FleetCode[r.fleet_id])
       IN driver_req' =
              IF \/ r.next_number > DriverNumberCap
                 \/ \E g \in FleetIds : driver_id \in drivers[g]
              THEN [driver_req EXCEPT ![w] = NoDriverRequest]
              ELSE [driver_req EXCEPT ![w].pc = "gd_store",
                                      ![w].driver_id = driver_id]
    /\ UNCHANGED <<db_checks, trips, bookings, payments, webhook_logs, timers,
                   now, req, res, timed_out, refunds, drivers>>

\* DriverService.register_driver, lines 138-160: the driver row is inserted
\* with the returned id; the unique index on the id refuses a second row
RegisterDriverStore(w) ==
    /\ driver_req[w].pc = "gd_store"
    /\ LET r == driver_req[w]
       IN drivers' =
              IF \E g \in FleetIds : r.driver_id \in drivers[g]
              THEN drivers
              ELSE [drivers EXCEPT ![r.fleet_id] = @ \cup {r.driver_id}]
    /\ driver_req' = [driver_req EXCEPT ![w] = NoDriverRequest]
    /\ UNCHANGED <<db_checks, trips, bookings, payments, webhook_logs, timers,
                   now, req, res, timed_out, refunds>>

\* -------------------------------------------------------------------- Next
\* seat_numbers lists sent while payments are followed
PaidSeatRequests == {<<"1">>}

\* workers that take payment requests
PaymentWorkers == {"w1", "w2"}

BookingHandlers ==
    \/ \E t \in TripIds \cup {NoTrip}, seats \in PaidSeatRequests,
          ok \in BOOLEAN : CreateBooking(t, seats, ok)
    \/ \E b \in 1..(MaxPayableBookings + 1) : CancelBooking(b)
    \/ \E t \in TripIds \cup {NoTrip} : CancelTrip(t)

PaymentHandlers ==
    \/ \E w \in PaymentWorkers, b \in 1..(MaxPayableBookings + 1),
          amount \in ClientAmounts, authorized \in BOOLEAN :
           InitiatePayment(w, b, amount, authorized)
    \/ \E w \in PaymentWorkers,
          reply \in {"accepted", "rejected", "token_failed", "error"} :
           InitiateGatewayReply(w, reply)
    \/ \E payload \in CallbackPayloads(0..(MaxPayments + 1)) :
           HandleStkCallback(payload)
    \/ \E w \in PaymentWorkers, p \in 1..(MaxPayments + 1),
          authorized \in BOOLEAN :
           QueryPaymentStatus(w, p, authorized)
    \/ \E w \in PaymentWorkers, code \in QueryResultCodes :
           QueryGatewayReply(w, code)
    \/ \E p \in 1..MaxPayments : TimeoutCheck(p)
    \/ Tick

\* the engine with booking handlers that run one after the other
Next == BookingHandlers \/ PaymentHandlers

Spec == Init /\ [][Next]_vars

\* the booking endpoints under concurrent requests
NextBooking ==
    \/ \E w \in Workers, t \in TripIds \cup {NoTrip}, seats \in SeatRequests :
           CreateBookingCheckTrip(w, t, seats)
    \/ \E w \in Workers : CreateBookingCheckSeats(w)
    \/ \E w \in Workers, ok \in BOOLEAN : CreateBookingPassenger(w, ok)
    \/ \E w \in Workers : CreateBookingCommit(w)
    \/ \E w \in Workers, b \in 1..(MaxBookings + 1) : CancelBookingLoad(w, b)
    \/ \E w \in Workers : CancelBookingLoadTrip(w)
    \/ \E w \in Workers : CancelBookingCommit(w)
    \/ \E b \in 1..(MaxBookings + 1), seats \in SeatRequests,
          departed \in BOOLEAN : UpdateBooking(b, seats, departed)
    \/ \E t \in TripIds \cup {NoTrip} : CancelTrip(t)

SpecBooking == Init /\ [][NextBooking]_vars

\* the booking endpoints with requests served one at a time
NextSerial ==
    \/ \E t \in TripIds \cup {NoTrip}, seats \in SeatRequests, ok \in BOOLEAN :
           CreateBookingSerial(t, seats, ok)
    \/ \E b \in 1..(MaxBookings + 1) : CancelBooking(b)
    \/ \E b \in 1..(MaxBookings + 1), seats \in SeatRequests,
          departed \in BOOLEAN : UpdateBooking(b, seats, departed)
    \/ \E t \in TripIds \cup {NoTrip} : CancelTrip(t)
    \/ \E t \in TripIds \cup {NoTrip}, status \in TripStatusUpdates :
           UpdateTripStatus(t, status)

SpecSerial == Init /\ [][NextSerial]_vars

\* request.amount of an initiate request for one seat or for all seats, exact
\* or one cent above
FareAmounts == {FareCents * k + d : k \in 1..Capacity, d \in {0, 1}}

\* the refund workflow: bookings are made and paid, payments are refunded
NextRefund ==
    \/ \E t \in TripIds, seats \in SeatRequests, ok \in BOOLEAN :
           CreateBooking(t, seats, ok)
    \/ \E b \in 1..(MaxPayableBookings + 1), amount \in FareAmounts,
          authorized \in BOOLEAN :
           InitiatePayment("w1", b, amount, authorized)
    \/ \E reply \in {"accepted", "rejected", "token_failed", "error"} :
           InitiateGatewayReply("w1", reply)
    \/ \E payload \in CallbackPayloads(0..(MaxPayments + 1)) :
           HandleStkCallback(payload)
    \/ \E p \in 1..(MaxPayments + 1), amount \in RefundAmounts,
          in_fleet \in BOOLEAN :
           InitiateRefund(p, amount, in_fleet)

SpecRefund == Init /\ [][NextRefund]_vars

\* driver registrations under concurrent requests
NextDriver ==
    \/ \E w \in Workers, f \in FleetIds \cup {NoFleet} :
           GenerateDriverIdNumber(w, f)
    \/ \E w \in Workers : GenerateDriverIdCheck(w)
    \/ \E w \in Workers : RegisterDriverStore(w)

SpecDriver == Init /\ [][NextDriver]_vars

\* ------------------------------------------------------------ properties
\* two finished create_booking requests of different workers that ran at the
\* same time, for the same trip, sharing a seat, each of which would have
\* succeeded had it run alone, and whose passenger lookup did not fail
ConflictingCreates(w, v) ==
    /\ w # v
    /\ res[w].op = "create_booking" /\ res[v].op = "create_booking"
    /\ v \in res[w].overlap
    /\ res[w].trip_id = res[v].trip_id
    /\ Range(res[w].seat_numbers) \cap Range(res[v].seat_numbers) # {}
    /\ res[w].alone_ok /\ res[v].alone_ok
    /\ res[w].outcome # "Failed to create/get passenger"
    /\ res[v].outcome # "Failed to create/get passenger"

\* C1: of two concurrent create_booking requests for the same trip that share
\* a seat number, exactly one succeeds and the other is rejected because the
\* seat is not available.
C1_ExactlyOneCreateSucceeds ==
    \A w, v \in Workers :
        ConflictingCreates(w, v) =>
            \/ /\ res[w].outcome = "ok"
               /\ res[v].outcome = "Seat is not available"
            \/ /\ res[v].outcome = "ok"
               /\ res[w].outcome = "Seat is not available"

\* C2: any two distinct bookings on the same trip whose status is pending or
\* confirmed have disjoint seat_numbers.
C2_ActiveSeatsDisjoint ==
    \A i, j \in 1..Len(bookings) :
        ( /\ i # j
          /\ bookings[i].trip_id = bookings[j].trip_id
          /\ bookings[i].booking_status \in SeatHoldingStatuses
          /\ bookings[j].booking_status \in SeatHoldingStatuses )
        => Range(bookings[i].seat_numbers)
               \cap Range(bookings[j].seat_numbers) = {}

\* C3: every trip satisfies available_seats + booked_seats = total_seats with
\* both counters non-negative.
C3_SeatCountersBalanced ==
    \A t \in TripIds :
        /\ trips[t].available_seats + trips[t].booked_seats
               = trips[t].total_seats
        /\ trips[t].available_seats >= 0
        /\ trips[t].booked_seats >= 0

\* C4: once a payment's status is completed, failed, cancelled, expired or
\* refunded, no step (callback, status query, timeout check) changes it.
C4_TerminalStatusIsFinal ==
    [][\A p \in 1..Len(payments) :
           payments[p].status \in TerminalStatuses
               => payments'[p].status = payments[p].status]_vars

\* the step is a callback that commits: it appends a webhook log row
CallbackCommits == Len(webhook_logs') = Len(webhook_logs) + 1

DeliveredPayload == webhook_logs'[Len(webhook_logs')].raw_payload

\* the payment and the booking are as the first delivery of the payload left
\* them
FirstDeliveryStands(payload) ==
    LET p == payment_by_checkout(payload.cid)
    IN /\ p # 0
       /\ IF payload.result_code = 0
          THEN /\ payments[p].status = "completed"
               /\ payments[p].mpesa_receipt_number = payload.receipt
               /\ bookings[payments[p].booking_id].booking_status = "CONFIRMED"
               /\ bookings[payments[p].booking_id].amount_paid
                      = payments[p].amount
          ELSE /\ payments[p].status = "failed"
               /\ payments[p].failure_reason = ResultDesc(payload.result_code)

\* C5: a callback whose payload is the one delivered just before it, arriving
\* while the payment and the booking are as that delivery left them, changes
\* neither a payment nor a booking.
C5_RedeliveryChangesNothing ==
    [][( /\ CallbackCommits
         /\ Len(webhook_logs) >= 1
         /\ DeliveredPayload = webhook_logs[Len(webhook_logs)].raw_payload
         /\ FirstDeliveryStands(DeliveredPayload) )
       => payments' = payments /\ bookings' = bookings]_vars

\* C6: once the timeout check has run on a payment that was still processing,
\* it has won the race: a callback that arrives afterwards changes nothing of
\* that payment.
C6_CallbackAfterTimeoutIsNoOp ==
    [][\A p \in timed_out :
           CallbackCommits => payments'[p] = payments[p]]_vars

\* C7: each booking has at most one payment whose status is pending or
\* processing.
C7_OneOpenPaymentPerBooking ==
    \A b \in 1..Len(bookings) :
        Cardinality({p \in PaymentsOf(b) :
                        payments[p].status \in {"pending", "processing"}}) <= 1

\* the step is the timeout check of payment p
TimeoutFires(p) == p \in timers /\ p \notin timers'

\* C8: the timeout check of a payment that is still processing sets its
\* status to expired.
C8_TimeoutExpiresProcessing ==
    [][\A p \in 1..Len(payments) :
           (TimeoutFires(p) /\ payments[p].status = "processing")
               => payments'[p].status = "expired"]_vars

\* payments were initiated for booking b, no callback or status query has
\* resolved any of them, and the window of each has passed
UnansweredPastWindow(b) ==
    /\ PaymentsOf(b) # {}
    /\ \A p \in PaymentsOf(b) :
           /\ payments[p].status = "processing"
           /\ payments[p].expires_at <= now
           /\ \A i \in 1..Len(webhook_logs) :
                  webhook_logs[i].checkout_request_id
                      # payments[p].checkout_request_id

\* C9: when a booking's initiated payment saw no webhook within its window,
\* an initiate by the booking's owner with amount = amount_due is accepted.
C9_PayableAfterWindow ==
    \A b \in 1..Len(bookings) :
        UnansweredPastWindow(b)
            => validate_payment_request(b, bookings[b].amount_due, TRUE) = "ok"

\* a second payment was created for a booking after the window of its first,
\* still unanswered payment had passed
C9_Witness ==
    \E b \in 1..Len(bookings) : \E p, q \in PaymentsOf(b) :
        /\ p < q
        /\ payments[p].status = "processing"
        /\ payments[q].status = "processing"
        /\ payments[p].expires_at <= payments[q].expires_at - ExpiryMinutes
        /\ webhook_logs = <<>>

\* the step is worker w's initiate getting the gateway's acceptance
GatewayAccepts(w) ==
    /\ req[w].pc = "ip_gateway" /\ req'[w].pc = "idle"
    /\ Len(payments') = Len(payments) + 1
    /\ payments'[Len(payments')].checkout_request_id # 0

\* the step is a success callback with a receipt for the processing payment p
SuccessCallbackFor(p) ==
    /\ CallbackCommits
    /\ DeliveredPayload.result_code = 0
    /\ DeliveredPayload.cid = payments[p].checkout_request_id
    /\ payments[p].status = "processing"

\* C10: an initiate the gateway accepts leaves the transaction processing; a
\* success callback with receipt R then sets it to completed with receipt R,
\* confirms the booking and sets the booking's amount_paid to the payment's
\* amount.
C10_PaymentHappyPath ==
    [][ /\ \A w \in Workers :
               GatewayAccepts(w) =>
                   /\ payments'[Len(payments')].status = "processing"
                   /\ payments'[Len(payments')].booking_id = req[w].booking_id
                   /\ payments'[Len(payments')].amount = req[w].amount
        /\ \A p \in 1..Len(payments) :
               SuccessCallbackFor(p) =>
                   /\ payments'[p].status = "completed"
                   /\ payments'[p].mpesa_receipt_number
                          = DeliveredPayload.receipt
                   /\ bookings'[payments[p].booking_id].booking_status
                          = "CONFIRMED"
                   /\ bookings'[payments[p].booking_id].amount_paid
                          = payments[p].amount ]_vars

\* a payment initiated with amount_due was completed by a callback with a
\* receipt and its booking confirmed
C10_Witness ==
    \E p \in 1..Len(payments) :
        /\ payments[p].status = "completed"
        /\ payments[p].mpesa_receipt_number \in Receipts
        /\ payments[p].amount = bookings[payments[p].booking_id].amount_due
        /\ bookings[payments[p].booking_id].booking_status = "CONFIRMED"
        /\ bookings[payments[p].booking_id].amount_paid = payments[p].amount
        /\ Len(webhook_logs) = 1

\* a booking of trip t that holds seat s
HoldsSeat(i, t, s) ==
    /\ i \in ActiveBookingIds(t)
    /\ s \in Range(bookings[i].seat_numbers)

\* the step commits the cancellation of booking i: its status becomes
\* "cancelled"
CancelSucceeds(i) ==
    /\ i \in 1..Len(bookings)
    /\ bookings[i].booking_status \in SeatHoldingStatuses
    /\ bookings'[i].booking_status = "cancelled"

\* after the step no active booking of trip t holds seat s
SeatFreed(t, s) == ~(\E j \in 1..Len(bookings) : HoldsSeat(j, t, s))'

\* the cancellation of the one holder of a seat leaves the seat bookable
CancelFreesSeat ==
    \A t \in TripIds, i \in 1..Len(bookings), s \in SeatLabels :
        ( /\ HoldsSeat(i, t, s)
          /\ CancelSucceeds(i)
          /\ SeatFreed(t, s) )
        => (create_booking_outcome(t, <<s>>, TRUE) = "ok")'

C12_CancelIsIdempotent ==
    \A b \in 1..Len(bookings) :
        bookings[b].booking_status = "cancelled"
            => cancel_booking_outcome(b) = "ok"

\* C13: a booking whose status is cancelled or completed keeps that status:
\* no later payment callback, status query or update changes it.
C13_TerminalBookingIsFinal ==
    [][\A b \in 1..Len(bookings) :
           bookings[b].booking_status
                   \in {"cancelled", "completed", "CANCELLED", "COMPLETED"}
               => bookings'[b].booking_status = bookings[b].booking_status]_vars

\* the step commits a refund row
RefundCreated == Len(refunds') = Len(refunds) + 1

\* the source payment of a refund request exists, is completed and covers
\* the amount
Refundable(p, amount) ==
    /\ p \in 1..Len(payments)
    /\ payments[p].status = "completed"
    /\ amount <= payments[p].amount

\* C14: initiate_refund creates a RefundTransaction only when the source
\* payment exists, is completed and refund_amount is at most the payment's
\* amount; in every other case it returns an error and creates no
\* RefundTransaction.
C14_RefundOnlyOfCompletedPayment ==
    /\ [](\A p \in 1..(MaxPayments + 1), amount \in RefundAmounts,
             in_fleet \in BOOLEAN :
             ~Refundable(p, amount)
                 => initiate_refund_outcome(p, amount, in_fleet) # "ok")
    /\ [][RefundCreated
            => LET r == refunds'[Len(refunds')]
               IN /\ Refundable(r.original_payment_id, r.refund_amount)
                  /\ initiate_refund_outcome(r.original_payment_id,
                                             r.refund_amount, TRUE) = "ok"]_vars

\* a refund has been created while another payment, which is not completed,
\* was refused one
C14_Witness ==
    /\ Len(refunds) > 0
    /\ \E p \in 1..Len(payments) :
          /\ payments[p].status # "completed"
          /\ initiate_refund_outcome(p, 5000, TRUE)
                 = "Can only refund completed payments"

\* C15: a refund whose amount exceeds the approval threshold has
\* requires_approval = true and, while approved_by is unset, never has status
\* processing, completed or failed.
C15_LargeRefundAwaitsApproval ==
    \A r \in 1..Len(refunds) :
        refunds[r].refund_amount > ApprovalThresholdCents
            => /\ refunds[r].requires_approval
               /\ refunds[r].approved_by = "NULL"
                      => refunds[r].status
                             \notin {"processing", "completed", "failed"}

\* a refund above the threshold has been created
C15_Witness ==
    \E r \in 1..Len(refunds) :
        refunds[r].refund_amount > ApprovalThresholdCents

\* C16: a refund request on a completed payment whose amount does not exceed
\* the approval threshold yields a refund that is in status processing, with
\* no approval action and approved_by unset.
C16_SmallRefundGoesToProcessing ==
    \A r \in 1..Len(refunds) :
        refunds[r].refund_amount <= ApprovalThresholdCents
            => /\ refunds[r].status = "processing"
               /\ refunds[r].approved_by = "NULL"

\* C17: once a payment for a booking has completed, the booking satisfies
\* amount_paid + amount_due = total_fare.
C17_SettledAmountsAddUp ==
    \A p \in 1..Len(payments) :
        payments[p].status = "completed"
            => LET b == bookings[payments[p].booking_id]
               IN b.amount_paid + b.amount_due = b.total_fare

\* C18: the callback endpoint answers every gateway callback with ResultCode 0
\* and "Success", whatever the outcome of the processing: unknown request id,
\* missing CheckoutRequestID, or an exception while processing.
C18_CallbackAlwaysAcknowledged ==
    \A payload \in CallbackPayloads(0..(MaxPayments + 1)),
       task_added \in BOOLEAN :
        mpesa_callback(payload, task_added)
            = [ResultCode |-> 0, ResultDesc |-> "Success"]

\* a callback has been processed, and callbacks whose processing raises, finds
\* no payment or finds no CheckoutRequestID can arrive
C18_Witness ==
    /\ Len(webhook_logs) > 0
    /\ \E payload \in CallbackPayloads(0..(MaxPayments + 1)) :
          stk_callback_outcome(payload) = "Error handling STK callback"
    /\ \E payload \in CallbackPayloads(0..(MaxPayments + 1)) :
          stk_callback_outcome(payload) = "Payment not found"
    /\ \E payload \in CallbackPayloads(0..(MaxPayments + 1)) :
          stk_callback_outcome(payload) = "Invalid callback data"

\* the step is a failure callback for payment p
FailureCallbackFor(p) ==
    /\ CallbackCommits
    /\ DeliveredPayload.result_code # 0
    /\ DeliveredPayload.cid = payments[p].checkout_request_id

\* the step leaves payment p failed with the gateway's reason and no booking
\* changed
FailureRecorded(p) ==
    /\ payments'[p].status = "failed"
    /\ payments'[p].failure_reason = ResultDesc(DeliveredPayload.result_code)
    /\ bookings' = bookings

\* an initiate for the booking of payment p with amount = amount_due is
\* accepted after the step
PayableAgain(p) ==
    LET b == payments[p].booking_id
    IN (validate_payment_request(b, bookings[b].amount_due, TRUE) = "ok")'

\* after the step no payment of booking b other than p is completed or in
\* progress
NoOtherPaymentStands(b, p) ==
    (\A q \in PaymentsOf(b) \ {p} :
        /\ payments[q].status # "completed"
        /\ ~( /\ payments[q].status \in {"pending", "processing"}
              /\ payments[q].expires_at > now ))'

QueryResolves(w) ==
    /\ req[w].pc = "qp_gateway" /\ req'[w].pc = "idle"
    /\ payments[req[w].payment_id].status = "processing"
    /\ payments'[req[w].payment_id] # payments[req[w].payment_id]

\* payment p and its booking are after the step as the success callback of p
\* would leave them
AsSuccessCallback(p) ==
    LET b == payments[p].booking_id
        paid == stk_callback_booking(bookings[b], payments[p])
    IN /\ payments'[p].status = "completed"
       /\ bookings'[b].booking_status = paid.booking_status
       /\ bookings'[b].payment_status = paid.payment_status
       /\ bookings'[b].amount_paid = paid.amount_paid

\* payment p and its booking are after the step as a failure callback of p
\* would leave them
AsFailureCallback(p) ==
    /\ payments'[p].status = "failed"
    /\ payments'[p].failure_reason # ""
    /\ bookings' = bookings

\* C20: when a status query finds a still-processing payment that the gateway
\* reports as resolved, the payment and the booking end up as the
\* corresponding callback would leave them: for a success, payment completed,
\* booking confirmed and amount_paid set; for a failure, payment failed with
\* a reason.
C20_QueryMatchesCallback ==
    [][\A w \in Workers :
           QueryResolves(w)
               => \/ AsSuccessCallback(req[w].payment_id)
                  \/ AsFailureCallback(req[w].payment_id)]_vars

\* C21: every callback handed to handle_stk_callback leaves a committed
\* webhook log row holding its raw payload, also when the callback carries no
\* CheckoutRequestID, matches no payment, or its processing raises.
C21_EveryCallbackIsLogged ==
    /\ [](\A payload \in CallbackPayloads(0..(MaxPayments + 1)) :
             webhook_log_committed(payload))
    /\ [][CallbackCommits
            => webhook_logs'[Len(webhook_logs')].raw_payload
                   \in CallbackPayloads(0..(MaxPayments + 1))]_vars

\* C22: of two deliveries of the same callback (same CheckoutRequestID) that
\* are processed at the same time, exactly one is treated as first-seen and
\* applies the payment and booking effect; the other observes that the
\* callback was already processed and applies nothing.  The ledger marks a
\* delivery that applied the effect as processed.
C22_OneDeliveryIsFirstSeen ==
    \A i, j \in 1..Len(webhook_logs) :
        ( /\ i # j
          /\ webhook_logs[i].checkout_request_id
                 = webhook_logs[j].checkout_request_id
          /\ webhook_logs[i].raw_payload = webhook_logs[j].raw_payload )
        => ~(webhook_logs[i].processed /\ webhook_logs[j].processed)

\* trip statuses in which a trip takes no more bookings
NonBookableStatuses ==
    {"departed", "in_transit", "in_progress", "arrived", "completed",
     "cancelled"}

\* C23: create_booking on a trip whose status is not bookable (in progress,
\* completed or cancelled) is rejected, creates no booking and changes no
\* seat counter.
C23_NoBookingOnClosedTrip ==
    /\ [](\A t \in TripIds, seats \in SeatRequests :
             trips[t].status \in NonBookableStatuses
                 => create_booking_outcome(t, seats, TRUE) # "ok")
    /\ [][\A t \in TripIds :
             trips[t].status \in NonBookableStatuses
                 => Len(bookings') = Len(bookings)]_vars

\* C24: an initiate for a booking whose status is cancelled or completed is
\* rejected and creates no PaymentTransaction; this covers a booking that was
\* cancelled through cancel_booking.  (The handler goes on to the gateway, and
\* to the payment row, only when the validation answers "ok".)
C24_NoPaymentForClosedBooking ==
    \A b \in 1..Len(bookings), amount \in ClientAmounts :
        bookings[b].booking_status
                \in {"cancelled", "completed", "CANCELLED", "COMPLETED"}
            => validate_payment_request(b, amount, TRUE) # "ok"

\* the step is the commit of worker w's cancel_booking
CancelCommits(w) == req[w].pc = "xb_commit" /\ req'[w].pc = "idle"

\* C25: when two cancel_booking requests for the same active booking run at
\* the same time, the trip's available_seats goes up, and booked_seats down,
\* by the booking's seats_booked exactly once: the commit of a cancellation
\* that finds the booking cancelled by the other request leaves the trip's
\* counters as they are.
C25_ConcurrentCancelsCountOnce ==
    [][\A w \in Workers :
           ( /\ CancelCommits(w)
             /\ bookings[req[w].booking_id].booking_status = "cancelled" )
           => trips' = trips]_vars

\* C26: after any sequence of initiate, callback and status-query operations
\* at most one payment of a booking is completed.
C26_BookingPaidOnce ==
    \A b \in 1..Len(bookings) :
        Cardinality({p \in PaymentsOf(b) : payments[p].status = "completed"})
            <= 1

\* C27: whenever a booking is confirmed with payment_status completed, a
\* payment of that booking is completed (or refunded) with an amount equal to
\* the booking's amount_paid; and whenever a payment is completed, its
\* booking is confirmed.
C27_BookingAgreesWithPayments ==
    /\ \A b \in 1..Len(bookings) :
           ( /\ bookings[b].booking_status = "CONFIRMED"
             /\ bookings[b].payment_status = "COMPLETED" )
           => \E p \in PaymentsOf(b) :
                  /\ payments[p].status \in {"completed", "refunded"}
                  /\ payments[p].amount = bookings[b].amount_paid
    /\ \A p \in 1..Len(payments) :
           payments[p].status = "completed"
               => bookings[payments[p].booking_id].booking_status = "CONFIRMED"

\* C28: after any sequence of create_booking and cancel_booking requests on a
\* scheduled trip the seat counters agree with the seat ledger: total_seats -
\* available_seats is the number of distinct seat numbers held by the trip's
\* pending and confirmed bookings, also when a request lists a seat number
\* more than once.
C28_CountersMatchSeatLedger ==
    \A t \in TripIds :
        trips[t].status = "scheduled"
            => trips[t].total_seats - trips[t].available_seats
                   = Cardinality(booked_seats_set(t))

\* refund_amount summed over the first n refunds that belong to payment p and
\* are neither failed nor cancelled
RECURSIVE RefundTotal(_, _)
RefundTotal(p, n) ==
    IF n = 0 THEN 0
    ELSE RefundTotal(p, n - 1)
         + ( IF /\ refunds[n].original_payment_id = p
                /\ refunds[n].status \notin {"failed", "cancelled"}
             THEN refunds[n].refund_amount ELSE 0 )

C30_ConcurrentDriverIdsDiffer ==
    \A w, v \in Workers :
        ( /\ w # v
          /\ driver_req[w].pc = "gd_store" /\ driver_req[v].pc = "gd_store"
          /\ driver_req[w].fleet_id = driver_req[v].fleet_id )
        => driver_req[w].driver_id # driver_req[v].driver_id

====
